---- MODULE Spec2Model ----
(***************************************************************************)
(* Model of DFRobotPHSensor (src/dfrobot_ph_sensor.py): the two in-memory  *)
(* calibration voltages, the calibration record on storage, and the        *)
(* operations that construct the sensor object, mutate its calibration     *)
(* and read a pH value.                                                    *)
(*                                                                         *)
(* Voltages are held in hundredths of a millivolt, so that the default     *)
(* acid voltage 2032.44 mV is the integer 203244. The floats of the pH     *)
(* computation are exact fractions: a value differs from the binary float  *)
(* by its rounding error only, which round() can see on an exact tie only. *)
(*                                                                         *)
(* Spec has every method; SpecRead varies the arguments of the reads over  *)
(* fewer calibrations; SpecValid calls the two static range checks.        *)
(***************************************************************************)
EXTENDS Integers, Sequences, FiniteSets, TLC

VARIABLES
    engine,           \* "none": no constructed object; "live": __init__ returned
    makedirs,         \* self.makedirs
    neutral_voltage,  \* self.neutral_voltage
    acid_voltage,     \* self.acid_voltage
    dir_exists,       \* the record's parent directory exists
    file,             \* the calibration record on storage
    record_written,   \* some call of an object has written to the record;
                      \* FALSE: it is as it was before any object existed
    lastOp,           \* the method called last
    lastArgs,         \* its arguments
    result,           \* how it returned: "ok" or the exception it raised
    returned          \* <<v>> or the fraction it returned, <<>> when it
                      \* returned nothing

vars == <<engine, makedirs, neutral_voltage, acid_voltage, dir_exists, file,
          record_written, lastOp, lastArgs, result, returned>>

mem == <<neutral_voltage, acid_voltage>>

(* ------------------------------ values -------------------------------- *)

\* x millivolts, in the model's unit.
mV(x) == x * 100

DEFAULT_NEUTRAL_VOLTAGE == 150000
DEFAULT_ACID_VOLTAGE == 203244

\* Number of whole-volt sample voltages (1000 mV, 2000 mV, ...).
NumGrid == 2

\* Voltages the callers pass and the records hold: zero, the four bounds of
\* the two range checks, the defaults, the example of __main__, and a grid
\* of whole volts.
Volts ==
    {0, mV(1322), mV(1515), mV(1678), mV(1854), mV(2210),
     DEFAULT_NEUTRAL_VOLTAGE, DEFAULT_ACID_VOLTAGE}
    \cup {mV(1000) * k : k \in 1..NumGrid}

(* ----------------------------- numbers -------------------------------- *)

\* The floats of the pH computation are held as exact fractions <<p, q>> in
\* lowest terms with q > 0; a division by zero is the one operation on them
\* that does not return.

Abs(x) == IF x < 0 THEN -x ELSE x

RECURSIVE GCD(_, _)
GCD(a, b) == IF b = 0 THEN a ELSE GCD(b, a % b)

Frac(p, q) ==
    LET g == GCD(Abs(p), Abs(q))
        sgn == IF q < 0 THEN -1 ELSE 1
    IN <<sgn * (p \div g), sgn * (q \div g)>>

Whole(k) == <<k, 1>>

\* The float of a voltage held in hundredths of a millivolt.
Millivolts(v) == Frac(v, 100)

\* Sums are taken over the least common denominator.
FAdd(x, y) ==
    LET g == GCD(x[2], y[2]) IN
    Frac(x[1] * (y[2] \div g) + y[1] * (x[2] \div g), (x[2] \div g) * y[2])

FSub(x, y) == FAdd(x, <<-y[1], y[2]>>)

FMul(x, y) ==
    LET a == Frac(x[1], y[2])
        b == Frac(y[1], x[2])
    IN Frac(a[1] * b[1], a[2] * b[2])

IsZero(x) == x[1] = 0

\* x / y for a y that is not zero.
FDiv(x, y) == FMul(x, Frac(y[2], y[1]))

RECURSIVE Pow10(_)
Pow10(k) == IF k = 0 THEN 1 ELSE 10 * Pow10(k - 1)

\* round(x, digits) cutting the further digits off.
Round_down(x, digits) ==
    Frac((x[1] * Pow10(digits)) \div x[2], Pow10(digits))

\* round(x, digits): the nearest multiple of 10^-digits, a tie going to the
\* even one.
Round(x, digits) ==
    LET num == x[1] * Pow10(digits)
        den == x[2]
        lo == num \div den
        rest == num - lo * den
        k == IF 2 * rest < den THEN lo
             ELSE IF 2 * rest > den THEN lo + 1
             ELSE IF lo % 2 = 0 THEN lo ELSE lo + 1
    IN Frac(k, Pow10(digits))

(* ------------------------- the range checks --------------------------- *)

\* The pH 7 check with its lower bound taken as inclusive.
is_valid_ph7_voltage_inclusive(mv) ==
    mv # 0 /\ mV(1322) <= mv /\ mv < mV(1678)

\* "mv and 1322 < mv < 1678": a zero is falsy, any other number is judged
\* by the strict comparison.
is_valid_ph7_voltage(mv) == mv # 0 /\ mV(1322) < mv /\ mv < mV(1678)

is_valid_ph4_voltage(mv) == mv # 0 /\ mV(1854) < mv /\ mv < mV(2210)

\* _verify_voltages without its second check.
verify_voltages_neutral_only(n, a) ==
    IF ~is_valid_ph7_voltage(n) THEN "ValueError_neutral" ELSE "ok"

\* _verify_voltages: the neutral voltage is judged first.
verify_voltages(n, a) ==
    IF ~is_valid_ph7_voltage(n) THEN "ValueError_neutral"
    ELSE IF ~is_valid_ph4_voltage(a) THEN "ValueError_acid"
    ELSE "ok"

(* ----------------------------- storage -------------------------------- *)

\* The dict built with the two voltages under each other's key.
json_dump_swapped(n, a) ==
    << [key |-> "neutral_voltage", val |-> a],
       [key |-> "acid_voltage", val |-> n] >>

\* What json.dump writes for the dict built in _store_calibration_data: the
\* two members in insertion order.
json_dump(n, a) ==
    << [key |-> "neutral_voltage", val |-> n],
       [key |-> "acid_voltage", val |-> a] >>

NoFile == [exists |-> FALSE, members |-> <<>>, complete |-> FALSE]

\* A record holding all of text, closing brace included.
WholeFile(text) == [exists |-> TRUE, members |-> text, complete |-> TRUE]

\* A record cut after the first k members of text: open(path, "w") emptied
\* it and the write stopped there.
CutFile(text, k) ==
    [exists |-> TRUE, members |-> SubSeq(text, 1, k), complete |-> FALSE]

\* The storage's behaviour during one write: none, open() raising, or the
\* write raising after k members reached the medium.
Faults == {"none", "open", "write0", "write1"}

CutAt(f) == IF f = "write0" THEN 0 ELSE 1

\* The write of _store_calibration_data, open() and json.dump, with the
\* storage behaving as f.
write_record(n, a, f) ==
    IF f = "open"
    THEN [result |-> "OSError_open", file |-> file, dir |-> TRUE,
          wrote |-> FALSE]
    ELSE IF f # "none"
    THEN [result |-> "OSError_write",
          file |-> CutFile(json_dump(n, a), CutAt(f)), dir |-> TRUE,
          wrote |-> TRUE]
    ELSE [result |-> "ok", file |-> WholeFile(json_dump(n, a)), dir |-> TRUE,
          wrote |-> TRUE]

\* _store_calibration_data creating the directory whatever the flag says.
store_calibration_data_always_makedirs(n, a, mk) ==
    LET v == verify_voltages(n, a) IN
    IF v # "ok"
    THEN {[result |-> v, file |-> file, dir |-> dir_exists, wrote |-> FALSE]}
    ELSE {write_record(n, a, f) : f \in Faults}

\* _store_calibration_data on the voltages (n, a) of an object whose
\* makedirs flag is mk: the ways it can end, one for each behaviour of the
\* storage it meets. Each says how the call returns, what it leaves on
\* storage, and whether it wrote to the record.
store_calibration_data(n, a, mk) ==
    LET v == verify_voltages(n, a) IN
    IF v # "ok"
    THEN {[result |-> v, file |-> file, dir |-> dir_exists, wrote |-> FALSE]}
    ELSE IF ~dir_exists /\ ~mk
    THEN {[result |-> "FileNotFoundError", file |-> file, dir |-> dir_exists,
           wrote |-> FALSE]}
    ELSE {write_record(n, a, f) : f \in Faults}

\* Whether the parsed record has the member key.
HasKey(text, key) == \E i \in 1..Len(text) : text[i].key = key

\* calibration_data[key] on the parsed record.
Lookup(text, key) ==
    text[CHOOSE i \in 1..Len(text) : text[i].key = key].val

\* _load_calibration_data on the record on storage: how it returns, and the
\* two fields of the object when it does.
load_calibration_data ==
    IF ~file.complete
    THEN [result |-> "JSONDecodeError",
          n |-> DEFAULT_NEUTRAL_VOLTAGE, a |-> DEFAULT_ACID_VOLTAGE]
    ELSE IF ~HasKey(file.members, "neutral_voltage")
    THEN [result |-> "KeyError",
          n |-> DEFAULT_NEUTRAL_VOLTAGE, a |-> DEFAULT_ACID_VOLTAGE]
    ELSE IF ~HasKey(file.members, "acid_voltage")
    THEN [result |-> "KeyError",
          n |-> Lookup(file.members, "neutral_voltage"),
          a |-> DEFAULT_ACID_VOLTAGE]
    ELSE LET n == Lookup(file.members, "neutral_voltage")
             a == Lookup(file.members, "acid_voltage")
         IN [result |-> verify_voltages(n, a), n |-> n, a |-> a]

(* ------------------------------ Init ---------------------------------- *)

\* Records a path can hold before the first construction: none, a whole
\* record of any two voltages, a record lacking a member, an unparsable one.
InitialFiles ==
    {NoFile, CutFile(<<>>, 0)}
    \cup {WholeFile(json_dump(n, a)) : n \in Volts, a \in Volts}
    \cup {WholeFile(SubSeq(json_dump(n, DEFAULT_ACID_VOLTAGE), 1, 1)) : n \in Volts}

Init ==
    /\ engine = "none"
    /\ makedirs = TRUE
    /\ neutral_voltage = DEFAULT_NEUTRAL_VOLTAGE
    /\ acid_voltage = DEFAULT_ACID_VOLTAGE
    /\ dir_exists \in BOOLEAN
    /\ file \in InitialFiles
    /\ (~dir_exists => file = NoFile)
    /\ record_written = FALSE
    /\ lastOp = "none"
    /\ lastArgs = <<>>
    /\ result = "none"
    /\ returned = <<>>

(* ---------------------------- operations ------------------------------ *)

\* The object's fields become (n, a) and _store_calibration_data runs on
\* them; op and args record the call.
Mutate(op, args, n, a) ==
    \E s \in store_calibration_data(n, a, makedirs) :
        /\ neutral_voltage' = n
        /\ acid_voltage' = a
        /\ file' = s.file
        /\ dir_exists' = s.dir
        /\ record_written' = (record_written \/ s.wrote)
        /\ result' = s.result
        /\ returned' = <<>>
        /\ lastOp' = op
        /\ lastArgs' = args

\* __init__ with _initialize_calibration_data: a new object on the path.
Construct(mk) ==
    /\ makedirs' = mk
    /\ lastOp' = "__init__"
    /\ lastArgs' = <<>>
    /\ returned' = <<>>
    /\ IF ~file.exists
       THEN \E s \in store_calibration_data(DEFAULT_NEUTRAL_VOLTAGE,
                                            DEFAULT_ACID_VOLTAGE, mk) :
               /\ neutral_voltage' = DEFAULT_NEUTRAL_VOLTAGE
               /\ acid_voltage' = DEFAULT_ACID_VOLTAGE
               /\ file' = s.file
               /\ dir_exists' = s.dir
               /\ record_written' = (record_written \/ s.wrote)
               /\ result' = s.result
       ELSE LET l == load_calibration_data
            IN /\ neutral_voltage' = l.n
               /\ acid_voltage' = l.a
               /\ result' = l.result
               /\ UNCHANGED <<file, dir_exists, record_written>>
    /\ engine' = IF result' = "ok" THEN "live" ELSE "none"

calibrate_ph7(mv) ==
    /\ engine = "live"
    /\ Mutate("calibrate_ph7", <<mv>>, mv, acid_voltage)
    /\ UNCHANGED <<engine, makedirs>>

calibrate_ph4(mv) ==
    /\ engine = "live"
    /\ Mutate("calibrate_ph4", <<mv>>, neutral_voltage, mv)
    /\ UNCHANGED <<engine, makedirs>>

\* auto_calibrate with the pH 4 check written in both branches.
auto_calibrate_ph4_twice(mv) ==
    /\ engine = "live"
    /\ IF is_valid_ph4_voltage(mv)
       THEN Mutate("auto_calibrate", <<mv>>, neutral_voltage, mv)
       ELSE /\ result' = "ValueError_auto"
            /\ returned' = <<>>
            /\ lastOp' = "auto_calibrate"
            /\ lastArgs' = <<mv>>
            /\ UNCHANGED <<neutral_voltage, acid_voltage, file, dir_exists,
                           record_written>>
    /\ UNCHANGED <<engine, makedirs>>

auto_calibrate(mv) ==
    /\ engine = "live"
    /\ IF is_valid_ph7_voltage(mv)
       THEN Mutate("auto_calibrate", <<mv>>, mv, acid_voltage)
       ELSE IF is_valid_ph4_voltage(mv)
       THEN Mutate("auto_calibrate", <<mv>>, neutral_voltage, mv)
       ELSE /\ result' = "ValueError_auto"
            /\ returned' = <<>>
            /\ lastOp' = "auto_calibrate"
            /\ lastArgs' = <<mv>>
            /\ UNCHANGED <<neutral_voltage, acid_voltage, file, dir_exists,
                           record_written>>
    /\ UNCHANGED <<engine, makedirs>>

\* reset_to_default without the assignment to acid_voltage.
reset_to_default_neutral_only ==
    /\ engine = "live"
    /\ Mutate("reset_to_default", <<>>, DEFAULT_NEUTRAL_VOLTAGE, acid_voltage)
    /\ UNCHANGED <<engine, makedirs>>

reset_to_default ==
    /\ engine = "live"
    /\ Mutate("reset_to_default", <<>>, DEFAULT_NEUTRAL_VOLTAGE,
              DEFAULT_ACID_VOLTAGE)
    /\ UNCHANGED <<engine, makedirs>>

set_calibration_data(n, a) ==
    /\ engine = "live"
    /\ Mutate("set_calibration_data", <<n, a>>, n, a)
    /\ UNCHANGED <<engine, makedirs>>

\* _calculate_ph with the acid voltage in the intercept.
calculate_ph_intercept_from_acid(mv, n, a) ==
    LET nn == FDiv(FSub(Millivolts(n), Whole(1500)), Whole(3))
        na == FDiv(FSub(Millivolts(a), Whole(1500)), Whole(3))
        span == FSub(nn, na)
    IN IF IsZero(span)
       THEN [raised |-> TRUE, value |-> <<>>]
       ELSE LET slope == FDiv(FSub(Whole(7), Whole(4)), span)
                intercept ==
                    FSub(Whole(7),
                         FDiv(FMul(slope, FSub(Millivolts(a), Whole(1500))),
                              Whole(3)))
                value ==
                    FAdd(FDiv(FMul(slope, FSub(mv, Whole(1500))), Whole(3)),
                         intercept)
            IN [raised |-> FALSE, value |-> value]

\* _calculate_ph on the float mv with the calibration (n, a): the value, or
\* the ZeroDivisionError of the slope's division.
calculate_ph(mv, n, a) ==
    LET nn == FDiv(FSub(Millivolts(n), Whole(1500)), Whole(3))
        na == FDiv(FSub(Millivolts(a), Whole(1500)), Whole(3))
        span == FSub(nn, na)
    IN IF IsZero(span)
       THEN [raised |-> TRUE, value |-> <<>>]
       ELSE LET slope == FDiv(FSub(Whole(7), Whole(4)), span)
                intercept ==
                    FSub(Whole(7),
                         FDiv(FMul(slope, FSub(Millivolts(n), Whole(1500))),
                              Whole(3)))
                value ==
                    FAdd(FDiv(FMul(slope, FSub(mv, Whole(1500))), Whole(3)),
                         intercept)
            IN [raised |-> FALSE, value |-> value]

\* A read returns: the rounded value of _calculate_ph on the float mv, or
\* its ZeroDivisionError; the object and the record are not touched.
Read(op, args, mv, round_to) ==
    \E c \in {calculate_ph(mv, neutral_voltage, acid_voltage)} :
    /\ lastOp' = op
    /\ lastArgs' = args
    /\ result' = IF c.raised THEN "ZeroDivisionError" ELSE "ok"
    /\ returned' = IF c.raised THEN <<>> ELSE Round(c.value, round_to)
    /\ UNCHANGED <<engine, makedirs, neutral_voltage, acid_voltage,
                   dir_exists, file, record_written>>

read_ph(mv, round_to) ==
    /\ engine = "live"
    /\ Read("read_ph", <<mv, round_to>>, Millivolts(mv), round_to)

\* read_ph_temp_compensation with 20 degrees as the reference.
read_ph_temp_compensation_ref20(mv, temperature, coefficient, round_to) ==
    LET compensation_coefficient ==
            FAdd(Whole(1), FMul(Frac(coefficient, 100),
                                FSub(Whole(temperature), Whole(20))))
        args == <<mv, temperature, coefficient, round_to>>
    IN /\ engine = "live"
       /\ IF IsZero(compensation_coefficient)
          THEN /\ lastOp' = "read_ph_temp_compensation"
               /\ lastArgs' = args
               /\ result' = "ZeroDivisionError"
               /\ returned' = <<>>
               /\ UNCHANGED <<engine, makedirs, neutral_voltage,
                              acid_voltage, dir_exists, file, record_written>>
          ELSE Read("read_ph_temp_compensation", args,
                    FDiv(Millivolts(mv), compensation_coefficient), round_to)

\* The coefficient is given in hundredths, the temperature in degrees.
read_ph_temp_compensation(mv, temperature, coefficient, round_to) ==
    LET compensation_coefficient ==
            FAdd(Whole(1), FMul(Frac(coefficient, 100),
                                FSub(Whole(temperature), Whole(25))))
        args == <<mv, temperature, coefficient, round_to>>
    IN /\ engine = "live"
       /\ IF IsZero(compensation_coefficient)
          THEN /\ lastOp' = "read_ph_temp_compensation"
               /\ lastArgs' = args
               /\ result' = "ZeroDivisionError"
               /\ returned' = <<>>
               /\ UNCHANGED <<engine, makedirs, neutral_voltage,
                              acid_voltage, dir_exists, file, record_written>>
          ELSE Read("read_ph_temp_compensation", args,
                    FDiv(Millivolts(mv), compensation_coefficient), round_to)

\* Every method of the object; the reads with the reading of __main__ and
\* the default arguments (SpecRead below varies them).
Next ==
    \/ \E mk \in BOOLEAN : Construct(mk)
    \/ \E mv \in Volts : calibrate_ph7(mv)
    \/ \E mv \in Volts : calibrate_ph4(mv)
    \/ \E mv \in Volts : auto_calibrate(mv)
    \/ reset_to_default
    \/ \E n \in Volts, a \in Volts : set_calibration_data(n, a)
    \/ read_ph(mV(1515), 2)
    \/ read_ph_temp_compensation(mV(1515), 25, 1, 2)

Spec == Init /\ [][Next]_vars

(* ------------------------------ reads --------------------------------- *)

\* The values of round_to the callers pass: the default, and none.
RoundTos == {0, 2}

\* Temperatures in degrees: the reference, one above it, and the one at
\* which the default coefficient makes the compensation coefficient zero.
Temperatures == {-75, 25, 35}

\* Coefficients in hundredths: the default 0.01, and 0.02.
Coefficients == {1, 2}

\* Voltages the single-point calibrations are called with before a read:
\* the ends of the two ranges, and for the neutral voltage the default acid
\* voltage, which is rejected and leaves the two voltages equal.
ReadNeutrals == {mV(1323), mV(1677), DEFAULT_ACID_VOLTAGE}

ReadAcids == {mV(1855), mV(2209)}

\* Readings: zero, the example of __main__, and every calibration voltage.
ReadVolts ==
    {0, mV(1515), DEFAULT_NEUTRAL_VOLTAGE, DEFAULT_ACID_VOLTAGE}
    \cup (ReadNeutrals \cup ReadAcids)

\* Readings passed with a temperature.
CompensatedVolts == {mV(1515), DEFAULT_ACID_VOLTAGE}

\* A path on which nothing exists yet, in an existing directory.
InitRead == Init /\ dir_exists /\ file = NoFile

\* The reads, on an object whose calibration the two single-point
\* calibrations have set, accepted or rejected.
NextRead ==
    \/ Construct(TRUE)
    \/ \E mv \in ReadNeutrals : calibrate_ph7(mv)
    \/ \E mv \in ReadAcids : calibrate_ph4(mv)
    \/ \E mv \in ReadVolts, r \in RoundTos : read_ph(mv, r)
    \/ \E mv \in CompensatedVolts, t \in Temperatures, c \in Coefficients,
          r \in RoundTos : read_ph_temp_compensation(mv, t, c, r)

SpecRead == InitRead /\ [][NextRead]_vars

(* ------------------------- the checks, called ------------------------- *)

\* Number of steps of 25 mV in the scale the checks are called over.
NumSteps == 100

\* Voltages the two static checks are called with: a scale from zero, both
\* sides of every bound, and the voltages of the other calls.
CheckedVolts ==
    {mV(25) * k : k \in 0..NumSteps}
    \cup {mV(1323), mV(1677), mV(1855), mV(2209)}
    \cup Volts

\* A call of a static check returns the truth of what the method returns
\* (0 for a zero, else a bool) and touches nothing.
Check(op, mv, truth) ==
    /\ lastOp' = op
    /\ lastArgs' = <<mv>>
    /\ result' = "ok"
    /\ returned' = <<truth>>
    /\ UNCHANGED <<engine, makedirs, neutral_voltage, acid_voltage,
                   dir_exists, file, record_written>>

call_is_valid_ph7_voltage(mv) ==
    Check("is_valid_ph7_voltage", mv, is_valid_ph7_voltage(mv))

call_is_valid_ph4_voltage(mv) ==
    Check("is_valid_ph4_voltage", mv, is_valid_ph4_voltage(mv))

NextValid ==
    \/ \E mv \in CheckedVolts : call_is_valid_ph7_voltage(mv)
    \/ \E mv \in CheckedVolts : call_is_valid_ph4_voltage(mv)

SpecValid == InitRead /\ [][NextValid]_vars

(* ------------------------------ claims -------------------------------- *)

\* The two ranges of the specification, written out.
InPh7Range(mv) == 132200 < mv /\ mv < 167800

InPh4Range(mv) == 185400 < mv /\ mv < 221000

\* The exceptions of _verify_voltages, those of the storage, and the calls
\* that change the calibration.
ValidationErrors == {"ValueError_neutral", "ValueError_acid"}

StorageErrors == {"FileNotFoundError", "OSError_open", "OSError_write"}

Mutators ==
    {"calibrate_ph7", "calibrate_ph4", "auto_calibrate", "reset_to_default",
     "set_calibration_data"}

\* The record on storage is whole and holds exactly the pair (n, a).
Stored(n, a) ==
    /\ file.exists
    /\ file.complete
    /\ Len(file.members) = 2
    /\ HasKey(file.members, "neutral_voltage")
    /\ HasKey(file.members, "acid_voltage")
    /\ Lookup(file.members, "neutral_voltage") = n
    /\ Lookup(file.members, "acid_voltage") = a

\* C1: a calibrate_ph7(mv) with mv outside 1322 < mv < 1678, or a
\* calibrate_ph4(mv) with mv outside 1854 < mv < 2210, fails with the
\* validation error and leaves the in-memory voltages and the record on
\* storage exactly as they were before the call.
C1_RejectedCalibrationChangesNothing ==
    [][ ( \/ lastOp' = "calibrate_ph7" /\ ~InPh7Range(lastArgs'[1])
          \/ lastOp' = "calibrate_ph4" /\ ~InPh4Range(lastArgs'[1]) )
        => /\ result' \in ValidationErrors
           /\ mem' = mem
           /\ file' = file ]_vars

\* C2: a set_calibration_data(n, a) of which at least one argument fails its
\* range check fails with the validation error, changes neither in-memory
\* voltage, and leaves the record on storage unchanged.
C2_RejectedBulkSetChangesNothing ==
    [][ ( /\ lastOp' = "set_calibration_data"
          /\ ~(InPh7Range(lastArgs'[1]) /\ InPh4Range(lastArgs'[2])) )
        => /\ result' \in ValidationErrors
           /\ mem' = mem
           /\ file' = file ]_vars

\* C3: on a constructed object the in-memory voltages are always in range,
\* 1322 < neutral_voltage < 1678 and 1854 < acid_voltage < 2210, whatever
\* calls were made on it and however they ended.
C3_MemoryAlwaysInRange ==
    engine = "live" => InPh7Range(neutral_voltage) /\ InPh4Range(acid_voltage)

\* C4: whenever construction or a mutating call has returned on an object,
\* the pair of voltages in memory is the pair in the record on storage.
C4_MemoryEqualsStorage ==
    engine = "live" => Stored(neutral_voltage, acid_voltage)

\* C5: when a mutating call passes validation and the persistence step
\* fails, the error reaches the caller and the in-memory voltages are back
\* at their values before the call.
C5_StorageFailureRollsBack ==
    [][ (lastOp' \in Mutators /\ result' \in StorageErrors) => mem' = mem ]_vars

\* C6: every record an object leaves on storage is whole and holds both
\* voltages, each in its range, also after a write that failed part-way.
C6_RecordAlwaysWholeAndValid ==
    record_written =>
        \E n \in Volts, a \in Volts :
            Stored(n, a) /\ InPh7Range(n) /\ InPh4Range(a)

\* C7: round trip through storage. A set_calibration_data(a, b) with a valid
\* pair is accepted whenever the storage takes the write, and a new object
\* constructed on the path right after an accepted set_calibration_data(a, b)
\* holds neutral_voltage = a and acid_voltage = b; after any other accepted
\* mutating call the new object holds the voltages that call left in memory.
C7_RoundTrip ==
    [][ /\ ( /\ lastOp' = "set_calibration_data"
             /\ InPh7Range(lastArgs'[1]) /\ InPh4Range(lastArgs'[2])
             /\ result' \notin StorageErrors )
           => result' = "ok"
        /\ ( /\ lastOp \in Mutators /\ result = "ok"
             /\ lastOp' = "__init__" )
           => /\ result' = "ok"
              /\ engine' = "live"
              /\ mem' = mem
              /\ lastOp = "set_calibration_data"
                 => mem' = <<lastArgs[1], lastArgs[2]>> ]_vars

\* A new object holds the non-default pair (1515 mV, 2000 mV) that calls of
\* an earlier object wrote to the record.
C7_Witness ==
    /\ lastOp = "__init__"
    /\ result = "ok"
    /\ engine = "live"
    /\ record_written
    /\ mem = <<151500, 200000>>

\* C8: auto_calibrate(mv) classifies by the two ranges. With 1322 < mv < 1678
\* it sets neutral_voltage to mv and leaves acid_voltage; with
\* 1854 < mv < 2210 it sets acid_voltage to mv and leaves neutral_voltage;
\* with any other mv it raises its own error and changes neither the memory
\* nor the record. auto_calibrate(1515) on the default calibration is
\* accepted, whenever the storage takes the write, with neutral_voltage 1515.
C8_AutoCalibrateClassifies ==
    [][ lastOp' = "auto_calibrate" =>
          LET mv == lastArgs'[1] IN
          /\ InPh7Range(mv) =>
                /\ neutral_voltage' = mv
                /\ acid_voltage' = acid_voltage
                /\ result' # "ValueError_auto"
          /\ InPh4Range(mv) =>
                /\ acid_voltage' = mv
                /\ neutral_voltage' = neutral_voltage
                /\ result' # "ValueError_auto"
          /\ (~InPh7Range(mv) /\ ~InPh4Range(mv)) =>
                /\ result' = "ValueError_auto"
                /\ mem' = mem
                /\ file' = file
          /\ ( /\ mv = 151500
               /\ mem = <<150000, 203244>>
               /\ result' \notin StorageErrors )
             => /\ result' = "ok"
                /\ Stored(151500, 203244)' ]_vars

\* auto_calibrate(1515) was accepted and the object holds 1515 mV with the
\* default acid voltage, in memory and on storage.
C8_Witness ==
    /\ lastOp = "auto_calibrate"
    /\ lastArgs = <<151500>>
    /\ result = "ok"
    /\ mem = <<151500, 203244>>
    /\ Stored(151500, 203244)

\* C9 as stated: auto_calibrate(1500) fails with the error of an
\* unclassifiable voltage.
C9_Original ==
    [][ (lastOp' = "auto_calibrate" /\ lastArgs' = <<150000>>)
        => result' = "ValueError_auto" ]_vars

\* C9: auto_calibrate(1500) never fails as unclassifiable: 1500 lies in the
\* pH 7 range, so the call takes the pH 7 path, sets neutral_voltage to 1500
\* and leaves acid_voltage.
C9_AutoCalibrate1500TakesPh7Path ==
    [][ (lastOp' = "auto_calibrate" /\ lastArgs' = <<150000>>)
        => /\ result' # "ValueError_auto"
           /\ neutral_voltage' = 150000
           /\ acid_voltage' = acid_voltage ]_vars

\* auto_calibrate(1500) was accepted on an object whose neutral voltage it
\* changed: the record holds 1500 mV beside a non-default acid voltage.
C9_Witness ==
    /\ lastOp = "auto_calibrate"
    /\ lastArgs = <<150000>>
    /\ result = "ok"
    /\ Stored(150000, 200000)

\* C10: reset_to_default, from any state of a constructed object, is never
\* rejected by validation and leaves the defaults in memory; whenever the
\* storage takes the write it succeeds and the record holds the defaults;
\* a second reset_to_default right after a successful one changes nothing.
C10_ResetRestoresDefaults ==
    [][ lastOp' = "reset_to_default" =>
          /\ mem' = <<150000, 203244>>
          /\ result' \notin ValidationErrors
          /\ result' \notin StorageErrors
             => (result' = "ok" /\ Stored(150000, 203244)')
          /\ (lastOp = "reset_to_default" /\ result = "ok" /\ result' = "ok")
             => (mem' = mem /\ file' = file) ]_vars

\* reset_to_default succeeded on an object and the record holds the
\* defaults that it wrote.
C10_Witness ==
    /\ lastOp = "reset_to_default"
    /\ result = "ok"
    /\ engine = "live"
    /\ record_written
    /\ mem = <<150000, 203244>>
    /\ Stored(150000, 203244)

\* C11: construction on a path without record. With the parent directory
\* present or makedirs true it is never refused for the directory or by
\* validation, and whenever the storage takes the write it succeeds with the
\* defaults in memory and a new record holding exactly the defaults; with
\* the directory missing and makedirs false it fails with FileNotFoundError
\* and creates neither the directory nor the record.
C11_ConstructWithoutRecord ==
    [][ (lastOp' = "__init__" /\ ~file.exists) =>
          /\ (dir_exists \/ makedirs') =>
                /\ result' \in {"ok", "OSError_open", "OSError_write"}
                /\ result' = "ok" =>
                      /\ engine' = "live"
                      /\ mem' = <<150000, 203244>>
                      /\ Stored(150000, 203244)'
          /\ (~dir_exists /\ ~makedirs') =>
                /\ result' = "FileNotFoundError"
                /\ engine' = "none"
                /\ ~dir_exists'
                /\ ~file'.exists ]_vars

\* Construction with makedirs false was refused for the missing directory,
\* and neither directory nor record exists.
C11_Witness ==
    /\ lastOp = "__init__"
    /\ result = "FileNotFoundError"
    /\ ~makedirs
    /\ ~dir_exists
    /\ ~file.exists
    /\ engine = "none"

\* C12: construction on a path holding a whole record with both members.
\* With both stored voltages in range the object holds the stored pair; with
\* one out of range (or zero) construction fails with the validation error
\* of that field, raised on the stored value; either way the record on
\* storage is left exactly as it was.
C12_ConstructFromRecord ==
    [][ ( /\ lastOp' = "__init__"
          /\ file.exists /\ file.complete
          /\ HasKey(file.members, "neutral_voltage")
          /\ HasKey(file.members, "acid_voltage") )
        => LET n == Lookup(file.members, "neutral_voltage")
               a == Lookup(file.members, "acid_voltage")
           IN /\ file' = file
              /\ mem' = <<n, a>>
              /\ (InPh7Range(n) /\ InPh4Range(a)) =>
                    (result' = "ok" /\ engine' = "live")
              /\ ~InPh7Range(n) =>
                    (result' = "ValueError_neutral" /\ engine' = "none")
              /\ (InPh7Range(n) /\ ~InPh4Range(a)) =>
                    (result' = "ValueError_acid" /\ engine' = "none") ]_vars

\* Construction was refused for the acid voltage of a record that no object
\* ever wrote, and the record is still there, whole.
C12_Witness ==
    /\ lastOp = "__init__"
    /\ result = "ValueError_acid"
    /\ engine = "none"
    /\ ~record_written
    /\ file.exists /\ file.complete
    /\ ~InPh4Range(Lookup(file.members, "acid_voltage"))

\* C13: construction on a path whose record is unparsable or lacks a member
\* fails with the dedicated error kind MalformedRecord, and no object comes
\* to exist.
C13_MalformedRecordError ==
    [][ ( /\ lastOp' = "__init__"
          /\ file.exists
          /\ \/ ~file.complete
             \/ ~HasKey(file.members, "neutral_voltage")
             \/ ~HasKey(file.members, "acid_voltage") )
        => (result' = "MalformedRecord" /\ engine' = "none") ]_vars

\* C20: a calibrate_ph7(mv) with 1322 < mv < 1678, a calibrate_ph4(mv) with
\* 1854 < mv < 2210, or an auto_calibrate(mv) with mv in either range
\* succeeds from every state of a constructed object, those right after a
\* rejected call included, whenever the storage takes the write, and the
\* record then holds the new value.
C20_ValidCalibrationAlwaysAccepted ==
    [][ ( /\ result' \notin StorageErrors
          /\ \/ lastOp' \in {"calibrate_ph7", "auto_calibrate"}
                /\ InPh7Range(lastArgs'[1])
             \/ lastOp' \in {"calibrate_ph4", "auto_calibrate"}
                /\ InPh4Range(lastArgs'[1]) )
        => /\ result' = "ok"
           /\ Stored(neutral_voltage, acid_voltage)'
           /\ lastArgs'[1] \in {neutral_voltage', acid_voltage'} ]_vars

\* The reads.
Reads == {"read_ph", "read_ph_temp_compensation"}

\* C14: with a valid pair of calibration voltages, read_ph at round_to 2
\* returns 7.00 for mv = neutral_voltage and 4.00 for mv = acid_voltage.
C14_CalibrationPointsReadBack ==
    ( /\ lastOp = "read_ph"
      /\ lastArgs[2] = 2
      /\ InPh7Range(neutral_voltage)
      /\ InPh4Range(acid_voltage) )
    => /\ result = "ok"
       /\ lastArgs[1] = neutral_voltage => returned = <<7, 1>>
       /\ lastArgs[1] = acid_voltage => returned = <<4, 1>>

\* read_ph returned 4.00 for the acid voltage of a calibration that two
\* accepted single-point calibrations have set.
C14_Witness ==
    /\ lastOp = "read_ph"
    /\ lastArgs = <<220900, 2>>
    /\ mem = <<167700, 220900>>
    /\ result = "ok"
    /\ returned = <<4, 1>>

\* C15 as stated: with the default calibration read_ph(1515) at round_to 2
\* returns 6.87, to within a hundredth.
C15_Original ==
    ( /\ lastOp = "read_ph"
      /\ lastArgs = <<151500, 2>>
      /\ mem = <<150000, 203244>> )
    => /\ result = "ok"
       /\ 686 * returned[2] <= 100 * returned[1]
       /\ 100 * returned[1] <= 688 * returned[2]

\* C15: with the default calibration read_ph(1515) at round_to 2 returns
\* 6.92 (the line through the two points gives 10228/1479 = 6.9155).
C15_DefaultReadOf1515 ==
    ( /\ lastOp = "read_ph"
      /\ lastArgs = <<151500, 2>>
      /\ mem = <<150000, 203244>> )
    => /\ result = "ok"
       /\ returned = <<173, 25>>

\* read_ph(1515) returned on the default calibration.
C15_Witness ==
    /\ lastOp = "read_ph"
    /\ lastArgs = <<151500, 2>>
    /\ mem = <<150000, 203244>>
    /\ engine = "live"
    /\ result = "ok"
    /\ returned # <<>>

\* C16: a read_ph while neutral_voltage = acid_voltage fails with the
\* explicit error DegenerateCalibration, also in the state a rejected
\* calibrate_ph7(acid_voltage) leaves.
C16_DegenerateCalibrationError ==
    (lastOp = "read_ph" /\ neutral_voltage = acid_voltage)
    => (result = "DegenerateCalibration" /\ returned = <<>>)

\* C17: read_ph_temp_compensation fails with DegenerateCompensation whenever
\* 1.0 + coefficient * (temperature - 25.0) is zero, returns no value and
\* changes no state.
C17_DegenerateCompensationError ==
    [][ ( /\ lastOp' = "read_ph_temp_compensation"
          /\ 100 + lastArgs'[3] * (lastArgs'[2] - 25) = 0 )
        => /\ result' = "DegenerateCompensation"
           /\ returned' = <<>>
           /\ mem' = mem
           /\ file' = file ]_vars

\* C18: at 25 degrees the compensated read is the plain read. A
\* read_ph_temp_compensation(mv, 25, coefficient, round_to) right after a
\* read_ph(mv, round_to), or right before one, ends as that read does, with
\* the same value or the same error; and no read changes the in-memory
\* voltages or the record.
C18_ReferenceTemperatureIsPlainRead ==
    [][ /\ lastOp' \in Reads => (mem' = mem /\ file' = file)
        /\ ( /\ lastOp = "read_ph"
             /\ lastOp' = "read_ph_temp_compensation"
             /\ lastArgs'[2] = 25
             /\ lastArgs = <<lastArgs'[1], lastArgs'[4]>> )
           => (result' = result /\ returned' = returned)
        /\ ( /\ lastOp = "read_ph_temp_compensation"
             /\ lastOp' = "read_ph"
             /\ lastArgs[2] = 25
             /\ lastArgs' = <<lastArgs[1], lastArgs[4]>> )
           => (result' = result /\ returned' = returned) ]_vars

\* A compensated read at 25 degrees with the coefficient 0.02 returned a
\* value on a calibration other than the default.
C18_Witness ==
    /\ lastOp = "read_ph_temp_compensation"
    /\ lastArgs = <<151500, 25, 2, 2>>
    /\ mem = <<132300, 185500>>
    /\ result = "ok"
    /\ returned # <<>>

\* C19: the two checks are strict and disjoint. is_valid_ph7_voltage(mv) is
\* true exactly for 1322 < mv < 1678 and is_valid_ph4_voltage(mv) exactly for
\* 1854 < mv < 2210, zero is invalid for both, and the two checks called one
\* after the other on the same mv are never both true.
C19_ChecksStrictAndDisjoint ==
    [][ /\ lastOp' = "is_valid_ph7_voltage" =>
              /\ returned' = <<InPh7Range(lastArgs'[1])>>
              /\ lastArgs'[1] \in {0, 132200, 167800} => returned' = <<FALSE>>
              /\ lastArgs'[1] \in {132300, 167700} => returned' = <<TRUE>>
        /\ lastOp' = "is_valid_ph4_voltage" =>
              /\ returned' = <<InPh4Range(lastArgs'[1])>>
              /\ lastArgs'[1] = 0 => returned' = <<FALSE>>
        /\ ( /\ {lastOp, lastOp'}
                    = {"is_valid_ph7_voltage", "is_valid_ph4_voltage"}
             /\ lastArgs' = lastArgs )
           => ~(returned[1] /\ returned'[1]) ]_vars

\* is_valid_ph7_voltage(1677) returned true.
C19_Witness ==
    /\ lastOp = "is_valid_ph7_voltage"
    /\ lastArgs = <<167700>>
    /\ returned = <<TRUE>>

====
